---------------------------- MODULE Spec2Model ----------------------------
(***************************************************************************)
(* Model of forsenInsane's two-tier detection state machine (src/main.py)  *)
(* together with the collaborators it drives: the stream-status source     *)
(* (src/twitch.py), the frame source (src/capture.py), the timer decoder   *)
(* (src/ocr.py), the notification sink (src/x.py) and the persisted state  *)
(* file state.json.                                                        *)
(*                                                                         *)
(* One process is one invocation of main().  Invocations share the wall    *)
(* clock and the state file.  Time is counted in whole seconds.            *)
(***************************************************************************)
EXTENDS Integers, Sequences, FiniteSets, TLC

(***************************************************************************)
(* Bounds of the model.                                                    *)
(***************************************************************************)
\* number of invocations of main() in one behaviour
MaxRuns == 2
\* iterations of the Tier-2 loop one invocation may start
MaxIter == 3
\* timers a decoded frame may show
MaxTokens == 3
\* the largest seconds count that is formatted
MaxSeconds == 5999

Procs == 1..MaxRuns

(***************************************************************************)
(* Optional values: Python's None and a present value.                     *)
(***************************************************************************)
None == <<>>
Some(v) == <<v>>

(***************************************************************************)
(* Program constants.                                                      *)
(***************************************************************************)
\* main.py:108  MAX_RUNTIME = 5.5 * 3600
MAX_RUNTIME == 19800
\* main.py:137, 147, 176  time.sleep(60)
BACKOFF_SECONDS == 60

(***************************************************************************)
(* Inputs.                                                                 *)
(***************************************************************************)
Modes == {"check-live", "check-timer", "full"}

\* config.json: enabled, min_threshold_seconds, max_threshold_seconds
Configs ==
    [enabled : BOOLEAN,
     min_threshold_seconds : {600},
     max_threshold_seconds : {867}]

\* what the Twitch API reports for the streamer: offline, or live with a game
Games == {"Minecraft", "Just Chatting"}
Streams == {None} \cup {Some(g) : g \in Games}

\* what the recognition pipeline returns for a frame (TimerResult.timer)
TimerValues == {599, 600, 867, 868}
TimerReads == {None} \cup {Some(t) : t \in TimerValues}

\* what os.environ holds when a client is constructed: are the client's
\* credentials all set
Credentials == BOOLEAN

\* the timers a frame shows, as minutes and seconds on the overlay
Shown == [m : {3, 59, 60, 99}, s : {7, 59, 60}]

\* how the recognition engine renders them: minutes padded to two digits or
\* not, with the RTA/IGT label or without, characters read correctly or
\* with the font's usual confusions
PlainStyle == [padded |-> TRUE, labelled |-> TRUE, misread |-> FALSE]
Styles == {PlainStyle,
           [padded |-> TRUE, labelled |-> FALSE, misread |-> FALSE],
           [padded |-> FALSE, labelled |-> TRUE, misread |-> TRUE]}

\* the times at which the scheduler may start an invocation
StartTimes == {0, 866, 867}

\* seconds a time.sleep(60) really takes: at least the 60 asked for
SleepDurations == {BACKOFF_SECONDS, MAX_RUNTIME}

VARIABLES
    now,          \* the wall clock (time.time(), datetime.now)
    stateFile,    \* state.json
    config,       \* config.json
    sent,         \* the tweets really posted, in order
    committed,    \* which of them (by position) were followed by the state write
    observed,     \* the exit statuses of poll-only and full invocations
    granted,      \* the last invocation was an admission check that said yes
    pc,           \* where each invocation is
    mode,         \* --mode
    dryRun,       \* --dry-run
    singleCheck,  \* --single-check
    error,        \* the exception that is propagating, if any
    state,        \* main's `state` dict
    tier1,        \* what check_live returned
    stream,       \* the `stream` the status source returned last
    startTime,    \* check_timer_loop's start_time
    iteration,    \* check_timer_loop's iteration
    framePath,    \* check_timer_loop's frame_path
    timerSeconds, \* check_timer_loop's timer_seconds
    result,       \* what check_timer_loop returned
    exitCode,     \* the process's exit status
    admitted,     \* the invocation polls after Tier 1 said yes
    alert,        \* the timer text the invocation handed to the sink
    ops,          \* how often each invocation used each collaborator
    reads,        \* the timers the invocation's loop decoded, in order
    frameShows,   \* decoder: the timers on the frame handed to the engine
    rendering,    \* decoder: the style in which the engine rendered them
    ocrText,      \* decoder: the OCR text
    fixes,        \* decoder: how often _fix_ocr_text was applied to it
    timerResult,  \* decoder: the TimerResult of parse_timer_detailed
    secondsArg,   \* formatter: the argument of format_timer
    timerStr,     \* formatter: what format_timer returned
    reparsed,     \* parse_timer_detailed of the formatted text
    script        \* what the collaborators answered the dry run, by iteration

progvars == <<now, stateFile, config, sent, committed, observed, granted, pc,
          mode, dryRun, singleCheck, error, state, tier1, stream, startTime, iteration, framePath,
          timerSeconds, result, exitCode, admitted, alert, ops, reads>>

ocrvars == <<frameShows, rendering, ocrText, fixes, timerResult, secondsArg,
             timerStr, reparsed>>

\* what no step of an invocation touches
sidevars == <<ocrvars, script>>

vars == <<progvars, sidevars>>

NoOps == [load |-> 0, status |-> 0, capture |-> 0, sleep |-> 0, slept |-> 0,
          sink |-> 0, notified |-> 0, post |-> 0, write |-> 0]

Ended(p) == pc[p] = "exited"

(***************************************************************************)
(* Faulty variants of the decisions below.  Each property of this module   *)
(* is violated when the decision it rests on is replaced by its variant.   *)
(***************************************************************************)
\* the lower end of the window excluded
ReachedMin_Exclusive(timer, cfg) == timer > cfg.min_threshold_seconds

\* the upper end of the window one second late
PastMax_OffByOne(timer, cfg) == timer > cfg.max_threshold_seconds + 1

\* the upper end of the window excluded
PastMax_Inclusive(timer, cfg) == timer >= cfg.max_threshold_seconds

\* the cooldown measured against the wrong threshold
should_skip_by_min(st, cfg, t) ==
    IF st.last_tweet_time = <<>> THEN FALSE
    ELSE LET elapsed == t - st.last_tweet_time[1]
         IN  elapsed < cfg.min_threshold_seconds

\* the cooldown still running when exactly max_threshold has elapsed
should_skip_inclusive(st, cfg, t) ==
    IF st.last_tweet_time = <<>> THEN FALSE
    ELSE LET elapsed == t - st.last_tweet_time[1]
         IN  elapsed <= cfg.max_threshold_seconds

\* the dry-run flag ignored by the sink
PostsTweet_Always(dry_run) == TRUE

\* the dry-run flag ignored by the state update
UpdatesState_Always(dry_run) == TRUE

\* the single-check flag ignored: always back off
ReturnsAfterMiss_Never(single_check) == FALSE

\* every miss ends the loop
ReturnsAfterMiss_Always(single_check) == TRUE

\* every live stream taken for the required content
ContainsMinecraft_Any(game) == TRUE

\* the ceiling reached, not exceeded
JobTimeout_Inclusive(elapsed) == elapsed >= MAX_RUNTIME

\* the ceiling noticed one backoff too late
JobTimeout_Late(elapsed) == elapsed > MAX_RUNTIME + BACKOFF_SECONDS

\* the effective timer preferring the first time found
EffectiveTimer_PrefersRta(r) == IF r.rta # <<>> THEN r.rta ELSE r.igt

\* a token with seconds of 60 or more kept
KeepsToken_Always(secs) == TRUE

\* the minute overflow taken modulo 60
FixedMinutes_Mod60(mins) == IF mins >= 60 THEN mins % 60 ELSE mins

\* the minute overflow left as read
FixedMinutes_Uncorrected(mins) == mins

\* a substitution whose result is itself substituted by an earlier entry
DigitFixes_Chained ==
    << <<"O", "0">>, <<"D", "0">>, <<"Q", "0">>, <<"U", "0">>,
       <<"I", "1">>, <<"L", "1">>, <<"|", "1">>, <<"J", "1">>,
       <<"Z", "2">>, <<"E", "3">>, <<"A", "U">>, <<"H", "4">>,
       <<"S", "5">>, <<"G", "6">>, <<"B", "8">>, <<"P", "9">> >>

(***************************************************************************)
(* ocr.py                                                                  *)
(***************************************************************************)
Digit(d) == CASE d = 0 -> "0" [] d = 1 -> "1" [] d = 2 -> "2" [] d = 3 -> "3"
              [] d = 4 -> "4" [] d = 5 -> "5" [] d = 6 -> "6" [] d = 7 -> "7"
              [] d = 8 -> "8" [] d = 9 -> "9"

\* the decimal digits of n >= 0, without padding
RECURSIVE Decimal(_)
Decimal(n) == IF n < 10 THEN <<Digit(n)>>
              ELSE Decimal(n \div 10) \o <<Digit(n % 10)>>

\* faulty variant: the seconds without padding
format_timer_Unpadded(seconds) ==
    Decimal(seconds \div 60) \o <<":">> \o Decimal(seconds % 60)

\* faulty variant: a leading hours field, H:MM:SS
format_timer_WithHours(seconds) ==
    LET minutes == (seconds \div 60) % 60
        secs == seconds % 60
    IN  Decimal(seconds \div 3600) \o <<":">>
        \o <<Digit(minutes \div 10), Digit(minutes % 10)>> \o <<":">>
        \o <<Digit(secs \div 10), Digit(secs % 10)>>

\* f"{minutes}:{secs:02d}"
format_timer(seconds) ==
    LET minutes == seconds \div 60
        secs == seconds % 60
    IN  Decimal(minutes) \o <<":">> \o <<Digit(secs \div 10), Digit(secs % 10)>>

\* str.upper(), for the letters that occur in the modelled texts
UpperChar(c) == CASE c = "a" -> "A" [] c = "g" -> "G" [] c = "i" -> "I"
                  [] c = "o" -> "O" [] c = "r" -> "R" [] c = "s" -> "S"
                  [] c = "t" -> "T" [] OTHER -> c

upper(text) == [i \in 1..Len(text) |-> UpperChar(text[i])]

\* str.replace(old, new) for one-character old and new
replace(text, old, new) ==
    [i \in 1..Len(text) |-> IF text[i] = old THEN new ELSE text[i]]

\* the two substitution tables of _fix_ocr_text, in the order applied
PunctuationFixes ==
    << <<"-", ":">>, <<";", ":">>, <<"'", ":">>, <<",", ".">> >>

DigitFixes ==
    << <<"O", "0">>, <<"D", "0">>, <<"Q", "0">>, <<"U", "0">>,
       <<"I", "1">>, <<"L", "1">>, <<"|", "1">>, <<"J", "1">>,
       <<"Z", "2">>, <<"E", "3">>, <<"A", "4">>, <<"H", "4">>,
       <<"S", "5">>, <<"G", "6">>, <<"B", "8">>, <<"P", "9">> >>

\* for old, new in table: fixed = fixed.replace(old, new)
RECURSIVE ReplaceEach(_, _)
ReplaceEach(text, table) ==
    IF table = <<>> THEN text
    ELSE ReplaceEach(replace(text, Head(table)[1], Head(table)[2]),
                     Tail(table))

fix_ocr_text(text) ==
    ReplaceEach(ReplaceEach(upper(text), PunctuationFixes), DigitFixes)

\* the regular expression's \d
IsDigit(c) == c \in {"0", "1", "2", "3", "4", "5", "6", "7", "8", "9"}

DigitsAt(text, from, n) ==
    /\ from + n - 1 <= Len(text)
    /\ \A i \in from..(from + n - 1) : IsDigit(text[i])

\* (\d{1,2}):(\d{2}) matched at position `at` with k digits of minutes
MatchesAt(text, at, k) ==
    /\ DigitsAt(text, at, k)
    /\ at + k <= Len(text)
    /\ text[at + k] = ":"
    /\ DigitsAt(text, at + k + 1, 2)

\* re.findall: the non-overlapping matches from left to right, each the
\* pair of its groups; \d{1,2} is greedy, so two digits are tried first
RECURSIVE findall(_, _)
findall(text, at) ==
    IF at > Len(text) THEN <<>>
    ELSE IF MatchesAt(text, at, 2)
    THEN <<<<SubSeq(text, at, at + 1), SubSeq(text, at + 3, at + 4)>>>>
         \o findall(text, at + 5)
    ELSE IF MatchesAt(text, at, 1)
    THEN <<<<SubSeq(text, at, at), SubSeq(text, at + 2, at + 3)>>>>
         \o findall(text, at + 4)
    ELSE findall(text, at + 1)

\* int(digits)
CharValue(c) == CHOOSE d \in 0..9 : Digit(d) = c

RECURSIVE int(_)
int(str) == IF Len(str) = 1 THEN CharValue(str[1])
            ELSE 10 * int(SubSeq(str, 1, Len(str) - 1))
                 + CharValue(str[Len(str)])

\* if mins >= 60: mins = mins % 10
FixedMinutes(mins) == IF mins >= 60 THEN mins % 10 ELSE mins

\* if secs < 60: the token is kept
KeepsToken(secs) == secs < 60

\* the loop that fills valid_times
RECURSIVE ValidTimes(_)
ValidTimes(times) ==
    IF times = <<>> THEN <<>>
    ELSE LET mins == FixedMinutes(int(Head(times)[1]))
             secs == int(Head(times)[2])
         IN  (IF KeepsToken(secs) THEN <<mins * 60 + secs>> ELSE <<>>)
             \o ValidTimes(Tail(times))

\* TimerResult(rta, igt)
parse_timer_detailed(text) ==
    LET fixed == fix_ocr_text(text)
        times == findall(fixed, 1)
        valid_times == ValidTimes(times)
    IN  [rta |-> IF Len(valid_times) >= 1 THEN Some(valid_times[1]) ELSE None,
         igt |-> IF Len(valid_times) >= 2 THEN Some(valid_times[2]) ELSE None]

\* TimerResult.timer
EffectiveTimer(r) == IF r.igt # None THEN r.igt ELSE r.rta

parse_timer(text) == EffectiveTimer(parse_timer_detailed(text))

(***************************************************************************)
(* twitch.py                                                               *)
(***************************************************************************)
\* game_name.lower() in current_game, for game_name = "Minecraft"
ContainsMinecraft(game) == game \in {"Minecraft"}

\* the pair (is_match, stream_data)
is_live_with_game(s) ==
    IF s = None THEN <<FALSE, None>>
    ELSE <<ContainsMinecraft(s[1]), s>>

(***************************************************************************)
(* x.py                                                                    *)
(***************************************************************************)
\* `if not all([...]): raise ValueError` (x.py), and
\* `if not self.client_id or not self.client_secret: raise ValueError`
MissingCredentials(present) == ~present

\* post_run_alert reaches XClient().post_tweet only when dry_run is false
PostsTweet(dry_run) == ~dry_run

(***************************************************************************)
(* main.py: the decisions                                                  *)
(***************************************************************************)
should_skip_for_same_run(st, cfg, t) ==
    IF st.last_tweet_time = None THEN FALSE
    ELSE LET elapsed == t - st.last_tweet_time[1]
         IN  elapsed < cfg.max_threshold_seconds

\* check_live's return value, given what the status source reported
check_live(cfg, st, s, t) ==
    IF ~cfg.enabled THEN FALSE
    ELSE LET live == is_live_with_game(s)
         IN  IF live[2] = None THEN FALSE
             ELSE IF ~live[1] THEN FALSE
             ELSE IF should_skip_for_same_run(st, cfg, t) THEN FALSE
             ELSE TRUE

\* elapsed > MAX_RUNTIME
JobTimeout(elapsed) == elapsed > MAX_RUNTIME

\* timer_seconds > max_threshold
PastMax(timer, cfg) == timer > cfg.max_threshold_seconds

\* timer_seconds >= min_threshold
ReachedMin(timer, cfg) == timer >= cfg.min_threshold_seconds

\* `if single_check: return None` after a miss, instead of the backoff
ReturnsAfterMiss(single_check) == single_check

\* `if not dry_run:` before the state update
UpdatesState(dry_run) == ~dry_run

\* Python's truth value of an Optional[int]
Truthy(r) == r # None /\ r[1] # 0

\* sys.exit(0 if result else 1)
ExitOfLoop(r) == IF Truthy(r) THEN 0 ELSE 1

\* check-live mode: sys.exit(0 if should_trigger else 1)
ExitOfCheckLive(should_trigger) == IF should_trigger THEN 0 ELSE 1

\* full mode, check_live false: sys.exit(0)
ExitOfRefusal == 0

\* an uncaught exception ends the interpreter with status 1
ExitOfException == 1

(***************************************************************************)
(* Initial state: nothing has run; the state file holds no timestamp.      *)
(***************************************************************************)
ProgramInit ==
    /\ now = 0
    /\ stateFile = [last_tweet_time |-> None]
    /\ config \in Configs
    /\ sent = <<>>
    /\ committed = {}
    /\ observed = [notified |-> {}, silent |-> {}]
    /\ granted = FALSE
    /\ pc = [p \in Procs |-> "idle"]
    /\ mode = [p \in Procs |-> "full"]
    /\ dryRun = [p \in Procs |-> FALSE]
    /\ singleCheck = [p \in Procs |-> FALSE]
    /\ error = [p \in Procs |-> None]
    /\ state = [p \in Procs |-> [last_tweet_time |-> None]]
    /\ tier1 = [p \in Procs |-> None]
    /\ stream = [p \in Procs |-> None]
    /\ startTime = [p \in Procs |-> 0]
    /\ iteration = [p \in Procs |-> 0]
    /\ framePath = [p \in Procs |-> None]
    /\ timerSeconds = [p \in Procs |-> None]
    /\ result = [p \in Procs |-> None]
    /\ exitCode = [p \in Procs |-> None]
    /\ admitted = [p \in Procs |-> FALSE]
    /\ alert = [p \in Procs |-> None]
    /\ ops = [p \in Procs |-> NoOps]
    /\ reads = [p \in Procs |-> <<>>]

\* no text is being decoded and no timer formatted
OcrIdle ==
    /\ frameShows = <<>>
    /\ rendering = PlainStyle
    /\ ocrText = <<>>
    /\ fixes = 0
    /\ timerResult = None
    /\ secondsArg = None
    /\ timerStr = None
    /\ reparsed = None

Init == ProgramInit /\ OcrIdle /\ script = <<>>

files == <<stateFile, config, sent, committed>>
flags == <<mode, dryRun, singleCheck>>
history == <<observed, granted, admitted>>
loopvars == <<state, tier1, stream, startTime, iteration, framePath,
              timerSeconds, exitCode, error, alert, reads>>

(***************************************************************************)
(* The end of a process with exit status `status`: its memory is gone, its *)
(* exit status remains.  The scheduler has seen the status, and whether a  *)
(* notification went out (`o` is the process's record of operations).      *)
(***************************************************************************)
Terminate(p, status, o) ==
    /\ pc' = [pc EXCEPT ![p] = "exited"]
    /\ exitCode' = [exitCode EXCEPT ![p] = Some(status)]
    /\ observed' =
          IF mode[p] = "check-live" THEN observed
          ELSE IF o.notified > 0
          THEN [observed EXCEPT !.notified = @ \cup {status}]
          ELSE [observed EXCEPT !.silent = @ \cup {status}]
    /\ granted' = (mode[p] = "check-live" /\ status = 0)
    /\ admitted' = [admitted EXCEPT ![p] = FALSE]
    /\ alert' = [alert EXCEPT ![p] = None]
    /\ ops' = [ops EXCEPT ![p] = NoOps]
    /\ reads' = [reads EXCEPT ![p] = <<>>]
    /\ mode' = [mode EXCEPT ![p] = "full"]
    /\ dryRun' = [dryRun EXCEPT ![p] = FALSE]
    /\ singleCheck' = [singleCheck EXCEPT ![p] = FALSE]
    /\ error' = [error EXCEPT ![p] = None]
    /\ state' = [state EXCEPT ![p] = [last_tweet_time |-> None]]
    /\ tier1' = [tier1 EXCEPT ![p] = None]
    /\ stream' = [stream EXCEPT ![p] = None]
    /\ startTime' = [startTime EXCEPT ![p] = 0]
    /\ iteration' = [iteration EXCEPT ![p] = 0]
    /\ framePath' = [framePath EXCEPT ![p] = None]
    /\ timerSeconds' = [timerSeconds EXCEPT ![p] = None]
    /\ result' = [result EXCEPT ![p] = None]

\* `return value` inside check_timer_loop
Return(p, value) ==
    /\ pc' = [pc EXCEPT ![p] = "loop_returned"]
    /\ result' = [result EXCEPT ![p] = value]
    /\ UNCHANGED error

\* the loop goes on to its next statement
Goto(p, where) ==
    /\ pc' = [pc EXCEPT ![p] = where]
    /\ UNCHANGED <<result, error>>

\* os.environ does not change while an invocation runs: the Twitch
\* credentials are set if an earlier TwitchClient() of p was constructed
SameEnvironment(p, cred) == ops[p].status > 0 => cred

\* an exception is raised and nothing in main.py catches it
Raise(p, what) ==
    /\ pc' = [pc EXCEPT ![p] = "raised"]
    /\ error' = [error EXCEPT ![p] = Some(what)]
    /\ UNCHANGED result

Count(p, what) == ops' = [ops EXCEPT ![p][what] = @ + 1]

(***************************************************************************)
(* main(): parse the arguments, load config.json and state.json.  The      *)
(* scheduler starts invocation p at time `at`; the clock's origin is the    *)
(* start of the first invocation.                                          *)
(***************************************************************************)
Begin(p, m, d, s, at) ==
    /\ pc[p] = "idle"
    /\ UNCHANGED sidevars
    /\ at >= now
    /\ now' = at
    /\ mode' = [mode EXCEPT ![p] = m]
    /\ dryRun' = [dryRun EXCEPT ![p] = d]
    /\ singleCheck' = [singleCheck EXCEPT ![p] = s]
    /\ state' = [state EXCEPT ![p] = stateFile]
    /\ Count(p, "load")
    /\ pc' = [pc EXCEPT ![p] = IF m = "check-timer" THEN "loop_enter"
                               ELSE "check_live"]
    /\ admitted' = [admitted EXCEPT ![p] = (m = "check-timer" /\ granted)]
    /\ granted' = FALSE
    /\ UNCHANGED <<files, observed, tier1, stream, startTime, iteration,
                   framePath, timerSeconds, result, exitCode, error, alert,
                   reads>>

\* the scheduler that never runs two invocations at once: p starts after
\* the earlier ones have ended
Start(p, m, d, s, at) ==
    /\ pc[p] = "idle"
    /\ \A q \in Procs : q < p => Ended(q)
    /\ p = 1 => at = 0
    /\ Begin(p, m, d, s, at)

(***************************************************************************)
(* Tier 1: check_live(config, state).                                      *)
(***************************************************************************)
CheckLive(p, s, cred) ==
    /\ pc[p] = "check_live"
    /\ UNCHANGED sidevars
    /\ IF config.enabled /\ MissingCredentials(cred)
       THEN \* TwitchClient() raised ValueError inside check_minecraft_stream
            /\ Raise(p, "twitch_credentials")
            /\ UNCHANGED <<tier1, ops, stream>>
       ELSE /\ tier1' = [tier1 EXCEPT ![p] =
                            Some(check_live(config, state[p], s, now))]
            /\ IF config.enabled
               THEN /\ Count(p, "status")
                    /\ stream' = [stream EXCEPT ![p] = is_live_with_game(s)[2]]
               ELSE UNCHANGED <<ops, stream>>
            /\ pc' = [pc EXCEPT ![p] = "tier1_returned"]
            /\ UNCHANGED <<result, error>>
    /\ UNCHANGED <<now, files, flags, history, state, startTime, iteration,
                   framePath, timerSeconds, exitCode, alert, reads>>

\* main() after check_live returned
AfterCheckLive(p) ==
    /\ UNCHANGED sidevars
    /\ pc[p] = "tier1_returned"
    /\ IF mode[p] = "check-live"
       THEN Terminate(p, ExitOfCheckLive(tier1[p][1]), ops[p])
       ELSE IF ~tier1[p][1]
       THEN Terminate(p, ExitOfRefusal, ops[p])
       ELSE /\ pc' = [pc EXCEPT ![p] = "loop_enter"]
            /\ admitted' = [admitted EXCEPT ![p] = TRUE]
            /\ UNCHANGED <<flags, observed, granted, loopvars, result, ops>>
    /\ UNCHANGED <<now, files>>

(***************************************************************************)
(* Tier 2: check_timer_loop(config, state, dry_run, single_check).         *)
(***************************************************************************)
\* start_time = time.time(); iteration = 0
LoopEnter(p) ==
    /\ pc[p] = "loop_enter"
    /\ UNCHANGED sidevars
    /\ startTime' = [startTime EXCEPT ![p] = now]
    /\ iteration' = [iteration EXCEPT ![p] = 0]
    /\ pc' = [pc EXCEPT ![p] = "loop_head"]
    /\ UNCHANGED <<now, files, flags, history, state, tier1, stream,
                   framePath, timerSeconds, result, exitCode, error, alert,
                   ops, reads>>

\* the top of `while True`: the job-timeout check and iteration += 1
LoopTop(p) ==
    /\ pc[p] = "loop_head"
    /\ UNCHANGED sidevars
    /\ IF JobTimeout(now - startTime[p])
       THEN /\ Return(p, None)
            /\ UNCHANGED iteration
       ELSE /\ iteration' = [iteration EXCEPT ![p] = @ + 1]
            /\ Goto(p, "verify")
    /\ UNCHANGED <<now, files, flags, history, state, tier1, stream,
                   startTime, framePath, timerSeconds, exitCode, alert, ops,
                   reads>>

\* the top of the loop, explored for at most MaxIter iterations
LoopHead(p) ==
    /\ JobTimeout(now - startTime[p]) \/ iteration[p] < MaxIter
    /\ LoopTop(p)

\* is_minecraft, stream = check_minecraft_stream(streamer)
Verify(p, s, cred) ==
    /\ pc[p] = "verify"
    /\ UNCHANGED sidevars
    /\ SameEnvironment(p, cred)
    /\ IF MissingCredentials(cred)
       THEN \* TwitchClient() raised ValueError
            /\ Raise(p, "twitch_credentials")
            /\ UNCHANGED <<ops, stream>>
       ELSE /\ Count(p, "status")
            /\ LET live == is_live_with_game(s)
               IN  /\ stream' = [stream EXCEPT ![p] = live[2]]
                   /\ IF live[2] = None THEN Return(p, None)
                      ELSE IF ~live[1] THEN Return(p, None)
                      ELSE Goto(p, "capture")
    /\ UNCHANGED <<now, files, flags, history, state, tier1, startTime,
                   iteration, framePath, timerSeconds, exitCode, alert,
                   reads>>

\* frame_path = capture_stream_frame(streamer)
Capture(p, frame) ==
    /\ pc[p] = "capture"
    /\ UNCHANGED sidevars
    /\ Count(p, "capture")
    /\ framePath' = [framePath EXCEPT ![p] = frame]
    /\ IF frame = None
       THEN IF ReturnsAfterMiss(singleCheck[p])
            THEN Return(p, None)
            ELSE Goto(p, "sleep")
       ELSE Goto(p, "read")
    /\ UNCHANGED <<now, files, flags, history, state, tier1, stream,
                   startTime, iteration, timerSeconds, exitCode, alert,
                   reads>>

\* timer_seconds = read_timer_from_frame(frame_path) and the threshold checks
ReadAndDecide(p, timer) ==
    /\ pc[p] = "read"
    /\ UNCHANGED sidevars
    /\ timerSeconds' = [timerSeconds EXCEPT ![p] = timer]
    /\ IF timer = None
       THEN IF ReturnsAfterMiss(singleCheck[p])
            THEN Return(p, None)
            ELSE Goto(p, "sleep")
       ELSE IF PastMax(timer[1], config) THEN Return(p, None)
       ELSE IF ReachedMin(timer[1], config) THEN Goto(p, "notify")
       ELSE IF ReturnsAfterMiss(singleCheck[p]) THEN Return(p, None)
       ELSE Goto(p, "sleep")
    /\ UNCHANGED <<now, files, flags, history, state, tier1, stream,
                   startTime, iteration, framePath, exitCode, alert, ops>>

\* the read, with its result recorded in the history of reads
ReadTimer(p, timer) ==
    /\ ReadAndDecide(p, timer)
    /\ reads' = [reads EXCEPT ![p] = Append(@, timer)]

\* post_run_alert(timer_str, streamer, frame_path, dry_run), where
\* timer_str = format_timer(timer_seconds)
Notify(p, cred, ok) ==
    /\ pc[p] = "notify"
    /\ UNCHANGED sidevars
    /\ LET posts == PostsTweet(dryRun[p])
           called == [ops[p] EXCEPT !.sink = @ + 1]
       IN  IF posts /\ (MissingCredentials(cred) \/ ~ok)
           THEN \* XClient() raised ValueError, or post_tweet raised
                /\ Raise(p, IF MissingCredentials(cred)
                            THEN "x_credentials" ELSE "post_tweet")
                /\ ops' = [ops EXCEPT ![p] = called]
                /\ UNCHANGED <<sent, alert, flags, history, state, tier1,
                               stream, startTime, iteration, framePath,
                               timerSeconds, exitCode, reads>>
           ELSE /\ ops' = [ops EXCEPT ![p] =
                             [called EXCEPT !.notified = @ + 1,
                                            !.post = IF posts THEN @ + 1 ELSE @]]
                /\ alert' = [alert EXCEPT ![p] =
                                Some(format_timer(timerSeconds[p][1]))]
                /\ sent' = IF posts
                           THEN Append(sent, [at |-> now, by |-> p,
                                              admitted |-> admitted[p]])
                           ELSE sent
                /\ IF UpdatesState(dryRun[p])
                   THEN Goto(p, "stamp_state")
                   ELSE Return(p, timerSeconds[p])
                /\ UNCHANGED <<flags, history, state, tier1, stream,
                               startTime, iteration, framePath, timerSeconds,
                               exitCode, reads>>
    /\ UNCHANGED <<now, stateFile, config, committed>>

\* faulty variant: the timestamp is not taken, the loaded state is saved
StampState_Skipped(p) ==
    /\ pc[p] = "stamp_state"
    /\ UNCHANGED sidevars
    /\ Goto(p, "save_state")
    /\ UNCHANGED <<now, files, flags, history, state, tier1, stream,
                   startTime, iteration, framePath, timerSeconds, exitCode,
                   alert, ops, reads>>

\* state["last_tweet_time"] = datetime.now(timezone.utc).isoformat()
StampState(p) ==
    /\ pc[p] = "stamp_state"
    /\ UNCHANGED sidevars
    /\ state' = [state EXCEPT ![p].last_tweet_time = Some(now)]
    /\ Goto(p, "save_state")
    /\ UNCHANGED <<now, files, flags, history, tier1, stream, startTime,
                   iteration, framePath, timerSeconds, exitCode, alert, ops,
                   reads>>

\* save_state(state); return timer_seconds.  save_state may raise
\* (state.json cannot be opened for writing); the dict in memory has been
\* updated by then, the file has not.
SaveState(p, ok) ==
    /\ pc[p] = "save_state"
    /\ UNCHANGED sidevars
    /\ IF ok
       THEN /\ stateFile' = state[p]
            /\ committed' = committed \cup {Len(sent)}
            /\ Count(p, "write")
            /\ Return(p, timerSeconds[p])
       ELSE /\ Raise(p, "save_state")
            /\ UNCHANGED <<stateFile, committed, ops>>
    /\ UNCHANGED <<now, config, sent, flags, history, state, tier1, stream,
                   startTime, iteration, framePath, timerSeconds, exitCode,
                   alert, reads>>

\* time.sleep(60); continue
Sleep(p, d) ==
    /\ pc[p] = "sleep"
    /\ UNCHANGED sidevars
    /\ now' = now + d
    /\ ops' = [ops EXCEPT ![p].sleep = @ + 1, ![p].slept = @ + BACKOFF_SECONDS]
    /\ pc' = [pc EXCEPT ![p] = "loop_head"]
    /\ UNCHANGED <<files, flags, history, loopvars, result>>

\* main() after check_timer_loop returned: sys.exit(0 if result else 1)
AfterLoop(p) ==
    /\ pc[p] = "loop_returned"
    /\ UNCHANGED sidevars
    /\ Terminate(p, ExitOfLoop(result[p]), ops[p])
    /\ UNCHANGED <<now, files>>

\* the exception leaves main(): traceback, exit status 1
Uncaught(p) ==
    /\ pc[p] = "raised"
    /\ UNCHANGED sidevars
    /\ Terminate(p, ExitOfException, ops[p])
    /\ UNCHANGED <<now, files>>

Next ==
    \E p \in Procs :
        \/ \E m \in Modes, d \in BOOLEAN, s \in BOOLEAN, at \in StartTimes :
              Start(p, m, d, s, at)
        \/ \E s \in Streams, cred \in Credentials : CheckLive(p, s, cred)
        \/ AfterCheckLive(p)
        \/ LoopEnter(p)
        \/ LoopHead(p)
        \/ \E s \in Streams, cred \in Credentials : Verify(p, s, cred)
        \/ \E frame \in {None, Some("frame.jpg")} : Capture(p, frame)
        \/ \E timer \in TimerReads : ReadTimer(p, timer)
        \/ \E cred \in Credentials, ok \in BOOLEAN : Notify(p, cred, ok)
        \/ StampState(p)
        \/ \E ok \in BOOLEAN : SaveState(p, ok)
        \/ \E d \in SleepDurations : Sleep(p, d)
        \/ AfterLoop(p)
        \/ Uncaught(p)

Spec == Init /\ [][Next]_vars

(***************************************************************************)
(* The timer decoder and the formatter on their own (ocr.py).  The text    *)
(* comes from the recognition engine: one line per timer on the frame, a   *)
(* label, the timer as MM:SS and the milliseconds.                         *)
(***************************************************************************)
SeqsUpTo(S, n) == UNION {[1..k -> S] : k \in 0..n}

TwoDigits(n) == <<Digit(n \div 10), Digit(n % 10)>>

\* the confusions of the pixel font the substitution table is there for
Misread(c) == CASE c = "0" -> "O" [] c = "1" -> "I" [] c = "5" -> "S"
                [] c = "6" -> "G" [] c = ":" -> ";" [] OTHER -> c

Label(k, style) ==
    IF ~style.labelled THEN <<>>
    ELSE IF k = 1
    THEN IF style.misread THEN <<"r", "t", "a", ":", " ">>
         ELSE <<"R", "T", "A", ":", " ">>
    ELSE IF style.misread THEN <<"i", "g", "t", ":", " ">>
         ELSE <<"I", "G", "T", ":", " ">>

TimerText(tok, style) ==
    LET clean == (IF style.padded THEN TwoDigits(tok.m) ELSE Decimal(tok.m))
                 \o <<":">> \o TwoDigits(tok.s) \o <<".", "2", "4", "6">>
    IN  IF style.misread
        THEN [i \in 1..Len(clean) |-> Misread(clean[i])]
        ELSE clean

\* "\n".join(text for _, text in lines)
RECURSIVE EngineText(_, _, _)
EngineText(toks, k, style) ==
    IF k > Len(toks) THEN <<>>
    ELSE (IF k > 1 THEN <<"\n">> ELSE <<>>)
         \o Label(k, style) \o TimerText(toks[k], style)
         \o EngineText(toks, k + 1, style)

OcrInit ==
    /\ ProgramInit
    /\ config.enabled
    /\ fixes = 0
    /\ timerResult = None
    /\ timerStr = None
    /\ reparsed = None
    /\ script = <<>>
    /\ \/ /\ frameShows \in SeqsUpTo(Shown, MaxTokens)
          /\ rendering \in Styles
          /\ ocrText = EngineText(frameShows, 1, rendering)
          /\ secondsArg = None
       \/ /\ frameShows = <<>>
          /\ rendering = PlainStyle
          /\ ocrText = <<>>
          /\ secondsArg \in {Some(n) : n \in 0..MaxSeconds}

\* fixed = _fix_ocr_text(text)
FixOcrText ==
    /\ secondsArg = None
    /\ timerResult = None
    /\ fixes < 2
    /\ ocrText' = fix_ocr_text(ocrText)
    /\ fixes' = fixes + 1
    /\ UNCHANGED <<progvars, frameShows, rendering, timerResult, secondsArg,
                   timerStr, reparsed,
                   script>>

\* result = parse_timer_detailed(text)
ParseTimerDetailed ==
    /\ secondsArg = None
    /\ fixes = 0
    /\ timerResult = None
    /\ timerResult' = Some(parse_timer_detailed(ocrText))
    /\ UNCHANGED <<progvars, frameShows, rendering, ocrText, fixes,
                   secondsArg, timerStr, reparsed,
                   script>>

\* timer_str = format_timer(timer_seconds)
FormatTimer ==
    /\ secondsArg # None
    /\ timerStr = None
    /\ timerStr' = Some(format_timer(secondsArg[1]))
    /\ UNCHANGED <<progvars, frameShows, rendering, ocrText, fixes,
                   timerResult, secondsArg, reparsed,
                   script>>

\* parse_timer_detailed(format_timer(seconds)): the formatted text read back
ParseFormatted ==
    /\ timerStr # None
    /\ reparsed = None
    /\ reparsed' = Some(parse_timer_detailed(timerStr[1]))
    /\ UNCHANGED <<progvars, frameShows, rendering, ocrText, fixes,
                   timerResult, secondsArg, timerStr,
                   script>>

OcrNext == FixOcrText \/ ParseTimerDetailed \/ FormatTimer \/ ParseFormatted

OcrSpec == OcrInit /\ [][OcrNext]_vars


(***************************************************************************)
(* Vocabulary of the properties.                                           *)
(***************************************************************************)
Alive(p) == pc[p] \notin {"idle", "exited"}

Last(seq) == seq[Len(seq)]

\* the qualifying window, both ends included
InWindow(t) ==
    config.min_threshold_seconds <= t /\ t <= config.max_threshold_seconds

BelowMin(t) == t < config.min_threshold_seconds

\* the step of p that leaves control point `at`
Leaves(p, at) == pc[p] = at /\ pc'[p] # at

\* the seconds a displayed "M:SS" text stands for
DigitValue(c) == CASE c = "0" -> 0 [] c = "1" -> 1 [] c = "2" -> 2
                   [] c = "3" -> 3 [] c = "4" -> 4 [] c = "5" -> 5
                   [] c = "6" -> 6 [] c = "7" -> 7 [] c = "8" -> 8
                   [] c = "9" -> 9

RECURSIVE NumberOf(_)
NumberOf(ds) == IF ds = <<>> THEN 0
                ELSE 10 * NumberOf(SubSeq(ds, 1, Len(ds) - 1))
                     + DigitValue(Last(ds))

SecondsOfText(txt) ==
    NumberOf(SubSeq(txt, 1, Len(txt) - 3)) * 60
    + NumberOf(SubSeq(txt, Len(txt) - 1, Len(txt)))

(***************************************************************************)
(* C1.  In one run of the Tier-2 loop the notification sink is called at   *)
(* most once; the call is made on the first decoded timer that lies in the *)
(* window, and after it the loop does no further status check, capture or  *)
(* sleep; every earlier read below the minimum only causes a backoff and   *)
(* another iteration.                                                      *)
(***************************************************************************)
C1_State ==
    \A p \in Procs :
        /\ ops[p].sink <= 1
        /\ \A i \in 1..Len(reads[p]) :
              (reads[p][i] # None /\ InWindow(reads[p][i][1]))
                 => /\ i = Len(reads[p])
                    /\ pc[p] \in {"notify", "stamp_state", "save_state",
                                 "loop_returned", "raised"}
                    /\ \A j \in 1..(i - 1) :
                          reads[p][j] = None \/ BelowMin(reads[p][j][1])
        /\ ops[p].sink = 1
              => /\ reads[p] # <<>>
                 /\ Last(reads[p]) # None
                 /\ InWindow(Last(reads[p])[1])
                 /\ pc[p] \in {"stamp_state", "save_state", "loop_returned",
                              "raised"}
        /\ (pc[p] = "notify" /\ ~singleCheck[p])
              => ops[p].sleep = iteration[p] - 1

C1_Step ==
    \A p \in Procs :
        /\ (ops[p].sink = 1 /\ pc'[p] # "exited")
              => /\ ops'[p].status = ops[p].status
                 /\ ops'[p].capture = ops[p].capture
                 /\ ops'[p].sleep = ops[p].sleep
                 /\ ops'[p].sink = 1
                 /\ pc'[p] \in {"stamp_state", "save_state", "loop_returned",
                               "raised"}
        /\ Leaves(p, "notify") => ops'[p].sink = 1 \/ pc'[p] = "exited"
        /\ (Leaves(p, "read") /\ ~singleCheck[p] /\ timerSeconds'[p] # None
            /\ BelowMin(timerSeconds'[p][1]))
              => pc'[p] = "sleep" /\ ops'[p] = ops[p]
        /\ Leaves(p, "sleep")
              => /\ pc'[p] = "loop_head"
                 /\ ops'[p].sleep = ops[p].sleep + 1
                 /\ ops'[p].sink = ops[p].sink

C1_NotifyOnceOnFirstQualifyingRead == []C1_State /\ [][C1_Step]_vars

\* two polls below the minimum, then exactly one notification
C1_Witness ==
    \E p \in Procs :
        /\ reads[p] = <<Some(599), Some(599), Some(600)>>
        /\ ops[p].sleep = 2
        /\ ops[p].sink = 1
        /\ pc[p] = "loop_returned"

(***************************************************************************)
(* C2.  Whenever the loop reads a timer strictly greater than the maximum  *)
(* threshold it ends in that iteration with result None: the sink is not   *)
(* called, the state is not written, and neither a sleep nor a capture     *)
(* follows, whatever was read before.                                      *)
(***************************************************************************)
RunMissed(p) ==
    /\ Alive(p)
    /\ timerSeconds[p] # None
    /\ timerSeconds[p][1] > config.max_threshold_seconds

C2_State ==
    \A p \in Procs :
        RunMissed(p)
           => /\ pc[p] = "loop_returned"
              /\ result[p] = None
              /\ ops[p].sink = 0
              /\ ops[p].post = 0
              /\ ops[p].write = 0
              /\ state[p] = stateFile

C2_Step ==
    \A p \in Procs :
        /\ (Leaves(p, "read") /\ timerSeconds'[p] # None
            /\ timerSeconds'[p][1] > config.max_threshold_seconds)
              => /\ pc'[p] = "loop_returned"
                 /\ iteration'[p] = iteration[p]
                 /\ now' = now
        /\ RunMissed(p)
              => /\ stateFile' = stateFile
                 /\ sent' = sent
                 /\ now' = now
                 /\ pc'[p] \in {"loop_returned", "exited"}
                 /\ pc'[p] = "loop_returned" => ops'[p] = ops[p]

C2_RunMissedEndsLoop == []C2_State /\ [][C2_Step]_vars

\* a run missed in the second iteration, after a read below the minimum
C2_Witness ==
    \E p \in Procs :
        /\ reads[p] = <<Some(599), Some(868)>>
        /\ pc[p] = "loop_returned"
        /\ result[p] = None

(***************************************************************************)
(* C3.  The sink is called in an iteration exactly when the timer read in  *)
(* that iteration satisfies min <= t <= max, both ends included; the timer *)
(* text handed to the sink always stands for a timer inside the window.    *)
(***************************************************************************)
SinkReached(p) == pc[p] = "notify" \/ ops[p].sink >= 1

C3_NotifyIffInWindow ==
    \A p \in Procs :
        /\ (Alive(p) /\ reads[p] # <<>>)
              => (SinkReached(p)
                    <=> (Last(reads[p]) # None /\ InWindow(Last(reads[p])[1])))
        /\ (Alive(p) /\ reads[p] = <<>>) => ~SinkReached(p)
        /\ alert[p] # None
              => /\ InWindow(SecondsOfText(alert[p][1]))
                 /\ timerSeconds[p] = Some(SecondsOfText(alert[p][1]))

\* a timer equal to the maximum notifies
C3_Witness ==
    \E p \in Procs :
        /\ timerSeconds[p] = Some(config.max_threshold_seconds)
        /\ alert[p] = Some(<<"1", "4", ":", "2", "7">>)
        /\ ops[p].sink = 1

(***************************************************************************)
(* C4.  Over non-overlapping, non-dry invocations that pass through Tier 1 *)
(* (full mode, or an admission check followed by the poll it admitted):    *)
(* once a notification is committed at time t, every Tier-1 check made     *)
(* before t + max returns no-trigger, so a notification of an admitted run *)
(* is at least max seconds after every earlier committed notification (one *)
(* whose state write succeeded).                                           *)
(***************************************************************************)
C4_CooldownSeparatesNotifications ==
    /\ \A p \in Procs :
          (pc[p] = "tier1_returned" /\ tier1[p] = Some(TRUE))
             => \A i \in committed :
                   now - sent[i].at >= config.max_threshold_seconds
    /\ \A p \in Procs :
          (Alive(p) /\ admitted[p])
             => \A i \in committed :
                   sent[i].by # p
                      => now - sent[i].at >= config.max_threshold_seconds
    /\ committed \subseteq 1..Len(sent)
    /\ \A i \in committed, j \in 1..Len(sent) :
          (i < j /\ sent[j].admitted)
             => sent[j].at - sent[i].at >= config.max_threshold_seconds

\* a second notification exactly max seconds after the first
C4_Witness ==
    /\ Len(sent) = 2
    /\ committed = {1, 2}
    /\ sent[2].admitted
    /\ sent[2].at - sent[1].at = config.max_threshold_seconds

(***************************************************************************)
(* C5.  check_live returns trigger exactly when the feature is enabled,    *)
(* the channel is live, its content label matches, and either no           *)
(* notification is on record or at least max seconds have elapsed since    *)
(* the recorded one; it never writes the state and never calls the frame   *)
(* source or the sink.                                                     *)
(***************************************************************************)
CooldownOver(p) ==
    \/ state[p].last_tweet_time = None
    \/ now - state[p].last_tweet_time[1] >= config.max_threshold_seconds

C5_State ==
    \A p \in Procs :
        /\ pc[p] = "tier1_returned"
              => /\ tier1[p] # None
                 /\ tier1[p][1] <=> /\ config.enabled
                                    /\ stream[p] # None
                                    /\ stream[p][1] = "Minecraft"
                                    /\ CooldownOver(p)
        /\ pc[p] \in {"check_live", "tier1_returned"}
              => /\ ops[p].capture = 0
                 /\ ops[p].sink = 0
                 /\ ops[p].post = 0
                 /\ ops[p].write = 0
                 /\ state[p] = stateFile

C5_Step ==
    \A p \in Procs :
        Leaves(p, "check_live")
           => /\ pc'[p] \in {"tier1_returned", "raised"}
              /\ stateFile' = stateFile
              /\ state'[p] = state[p]
              /\ sent' = sent
              /\ now' = now

C5_CheckLiveDecision == []C5_State /\ [][C5_Step]_vars

\* trigger granted exactly when the cooldown runs out
C5_Witness ==
    \E p \in Procs :
        /\ pc[p] = "tier1_returned"
        /\ tier1[p] = Some(TRUE)
        /\ state[p].last_tweet_time # None
        /\ now - state[p].last_tweet_time[1] = config.max_threshold_seconds

(***************************************************************************)
(* C6.  In an invocation with the dry-run flag no real tweet is posted and *)
(* the state file is not written, whatever the loop observes.              *)
(***************************************************************************)
C6_State ==
    \A p \in Procs :
        dryRun[p]
           => /\ ops[p].post = 0
              /\ ops[p].write = 0
              /\ pc[p] # "save_state"
              /\ state[p] = stateFile
              /\ \A i \in 1..Len(sent) : sent[i].by # p \/ sent[i].at < now

C6_Step ==
    /\ sent' # sent
          => \E p \in Procs :
                /\ ~dryRun[p]
                /\ pc[p] = "notify"
                /\ sent' = Append(sent, [at |-> now, by |-> p,
                                         admitted |-> admitted[p]])
    /\ stateFile' # stateFile
          => \E p \in Procs : ~dryRun[p] /\ pc[p] = "save_state"
    /\ \A p \in Procs :
          (dryRun[p] /\ pc'[p] # pc[p])
             => stateFile' = stateFile /\ sent' = sent

C6_DryRunHasNoEffect == []C6_State /\ [][C6_Step]_vars

\* a dry run whose timer qualified and whose sink returned
C6_Witness ==
    \E p \in Procs :
        /\ dryRun[p]
        /\ ops[p].sink = 1
        /\ ops[p].notified = 1
        /\ pc[p] = "loop_returned"
        /\ result[p] # None

(***************************************************************************)
(* C7.  In poll-only and full modes the process exit status tells a run    *)
(* that sent a notification from one that did not, the full-mode run that  *)
(* Tier 1 refused included: no exit status is produced both by a run whose *)
(* sink returned and by a run that notified nothing.                       *)
(***************************************************************************)
C7_ExitStatusTellsNotified == observed.notified \cap observed.silent = {}

\* a full-mode run refused by Tier 1 has ended with status 0
C7_RefusalSeen ==
    /\ 0 \in observed.silent
    /\ \E p \in Procs :
          /\ pc[p] = "exited"
          /\ exitCode[p] = Some(0)

(***************************************************************************)
(* C8.  In single-iteration mode the loop runs at most one iteration and   *)
(* never sleeps; it checks the stream status once and, exactly when the    *)
(* status is live with the required content, makes exactly one capture     *)
(* attempt (and at most one decode attempt) before it returns.             *)
(***************************************************************************)
C8_SingleCheckOneAttempt ==
    \A p \in Procs :
        singleCheck[p]
           => /\ iteration[p] <= 1
              /\ ops[p].sleep = 0
              /\ ops[p].slept = 0
              /\ pc[p] # "sleep"
              /\ ops[p].capture <= 1
              /\ Len(reads[p]) <= ops[p].capture
              /\ pc[p] = "loop_returned"
                    => /\ iteration[p] = 1
                       /\ now = startTime[p]
                       /\ ops[p].capture = 1
                             <=> (stream[p] # None /\ stream[p][1] = "Minecraft")
                       /\ Len(reads[p]) = 1
                             <=> (ops[p].capture = 1 /\ framePath[p] # None)

\* one capture, one read below the minimum, return without a sleep
C8_Witness ==
    \E p \in Procs :
        /\ singleCheck[p]
        /\ pc[p] = "loop_returned"
        /\ ops[p].capture = 1
        /\ reads[p] = <<Some(599)>>
        /\ result[p] = None

\* the statement for every stream status: one capture attempt in any case
C8_OneCaptureWhateverStatus ==
    \A p \in Procs :
        (singleCheck[p] /\ pc[p] = "loop_returned")
           => /\ ops[p].capture = 1
              /\ ops[p].sleep = 0
              /\ iteration[p] = 1

(***************************************************************************)
(* C9.  An invocation reads the state file once, at its start, and writes  *)
(* it at most once, only right after the sink returned in a non-dry run,   *)
(* recording the time of the notification; in every other outcome the      *)
(* state file keeps its content.                                           *)
(***************************************************************************)
C9_State ==
    \A p \in Procs :
        /\ Alive(p) => ops[p].load = 1
        /\ ops[p].write <= 1
        /\ ops[p].write = 1
              => /\ ops[p].post = 1
                 /\ ops[p].notified = 1
                 /\ ~dryRun[p]
                 /\ pc[p] = "loop_returned"
                 /\ stateFile.last_tweet_time = Some(now)
                 /\ result[p] = timerSeconds[p]
        /\ pc[p] \in {"stamp_state", "save_state"}
              => ops[p].post = 1 /\ ops[p].write = 0 /\ ~dryRun[p]
        /\ (Alive(p) /\ ops[p].write = 0 /\ pc[p] # "save_state"
            /\ error[p] # Some("save_state"))
              => state[p] = stateFile

C9_Step ==
    /\ stateFile' # stateFile
          => \E p \in Procs :
                /\ pc[p] = "save_state"
                /\ ops[p].post = 1
                /\ ops'[p].write = 1
                /\ stateFile' = [last_tweet_time |-> Some(now)]
    /\ \A p \in Procs :
          /\ pc'[p] = "stamp_state" /\ pc[p] # "stamp_state"
                => pc[p] = "notify" /\ ops'[p].post = ops[p].post + 1
          /\ pc'[p] = "save_state" /\ pc[p] # "save_state"
                => /\ pc[p] = "stamp_state"
                   /\ state'[p] = [last_tweet_time |-> Some(now)]
          /\ Leaves(p, "save_state")
                => \/ ops'[p].write = 1
                   \/ pc'[p] = "raised" /\ stateFile' = stateFile
          /\ ops'[p].load > ops[p].load
                => pc[p] = "idle" /\ state'[p] = stateFile

C9_StateReadOnceWrittenAfterNotify == []C9_State /\ [][C9_Step]_vars

\* the state written once, after the tweet
C9_Witness ==
    \E p \in Procs :
        /\ ops[p].write = 1
        /\ ops[p].post = 1
        /\ stateFile.last_tweet_time = Some(now)
        /\ ops[p].sleep >= 1

(***************************************************************************)
(* C10.  Outside single-iteration mode a failed capture or a failed read   *)
(* never ends the loop and never surfaces as an error: the loop backs off  *)
(* 60 seconds and starts another iteration, without a notification and     *)
(* without a state write.                                                  *)
(***************************************************************************)
Missed(p) ==
    \/ Leaves(p, "capture") /\ framePath'[p] = None
    \/ Leaves(p, "read") /\ timerSeconds'[p] = None

C10_State ==
    \A p \in Procs :
        /\ (pc[p] = "sleep" /\ Alive(p)) => ~singleCheck[p] /\ ops[p].sink = 0
        /\ ~singleCheck[p] => ops[p].slept = BACKOFF_SECONDS * ops[p].sleep
        /\ (~singleCheck[p] /\ pc[p] = "loop_returned" /\ result[p] = None
            /\ stream[p] # None /\ stream[p][1] = "Minecraft"
            /\ ~JobTimeout(now - startTime[p]))
              => timerSeconds[p] # None

C10_Step ==
    \A p \in Procs :
        /\ (Missed(p) /\ ~singleCheck[p])
              => /\ pc'[p] = "sleep"
                 /\ ops'[p].sink = ops[p].sink
                 /\ ops'[p].write = ops[p].write
                 /\ stateFile' = stateFile
                 /\ sent' = sent
                 /\ exitCode'[p] = None
        /\ Leaves(p, "sleep")
              => /\ pc'[p] = "loop_head"
                 /\ ops'[p].slept = ops[p].slept + BACKOFF_SECONDS
                 /\ now' >= now + BACKOFF_SECONDS
                 /\ stateFile' = stateFile
                 /\ sent' = sent
        /\ (Leaves(p, "loop_head") /\ ~JobTimeout(now - startTime[p]))
              => pc'[p] = "verify" /\ iteration'[p] = iteration[p] + 1

C10_MissBacksOffAndRetries == []C10_State /\ [][C10_Step]_vars

\* a failed capture and a failed read, each followed by another iteration
C10_Witness ==
    \E p \in Procs :
        /\ ~singleCheck[p]
        /\ pc[p] = "verify"
        /\ iteration[p] = 3
        /\ ops[p].capture = 2
        /\ reads[p] = <<None>>
        /\ ops[p].slept = 2 * BACKOFF_SECONDS
        /\ ops[p].sink = 0

(***************************************************************************)
(* C11.  A missing credential of any collaborator (stream-status source or *)
(* notification sink) aborts the invocation before any polling begins: an  *)
(* invocation that fails because a credential is missing has performed no  *)
(* Tier-2 status check and no frame capture.                               *)
(***************************************************************************)
CredentialError(p) ==
    /\ pc[p] = "raised"
    /\ error[p] \in {Some("twitch_credentials"), Some("x_credentials")}

\* the status checks p made inside the loop: all but the one of Tier 1
Tier2StatusChecks(p) ==
    ops[p].status - (IF tier1[p] # None /\ config.enabled THEN 1 ELSE 0)

C11_CredentialErrorBeforePolling ==
    \A p \in Procs :
        CredentialError(p)
           => /\ Tier2StatusChecks(p) = 0
              /\ ops[p].capture = 0

(***************************************************************************)
(* C12.  When the state write fails after a successful notification, the   *)
(* notification has been completed in full before the write is attempted,  *)
(* the failure is surfaced to the invoker, and the outcome the invocation  *)
(* reports (its exit status) is still the one of a run that notified.      *)
(***************************************************************************)
SaveFailed(p) == error[p] = Some("save_state")

C12_State ==
    \A p \in Procs :
        SaveFailed(p)
           => /\ pc[p] = "raised"
              /\ ops[p].notified = 1
              /\ ops[p].post = 1
              /\ sent # <<>>
              /\ Last(sent).by = p
              /\ Last(sent).at = now

C12_Step ==
    \A p \in Procs :
        (SaveFailed(p) /\ pc'[p] = "exited")
           => exitCode'[p] = Some(ExitOfLoop(timerSeconds[p]))

C12_SaveFailureKeepsOutcome == []C12_State /\ [][C12_Step]_vars

(***************************************************************************)
(* Vocabulary of the decoder properties: what the frame shows, as numbers. *)
(***************************************************************************)
TokenValid(tok) == tok.s < 60

TokenMinutes(tok) == IF tok.m >= 60 THEN tok.m % 10 ELSE tok.m

TokenValue(tok) == TokenMinutes(tok) * 60 + tok.s

\* the valid timers on the frame, top to bottom
ShownValid == SelectSeq(frameShows, TokenValid)

Nth(seq, k) == IF k <= Len(seq) THEN Some(seq[k]) ELSE None

Decoded == timerResult # None

\* the sequence without its i-th element
Without(seq, i) == SubSeq(seq, 1, i - 1) \o SubSeq(seq, i + 1, Len(seq))

(***************************************************************************)
(* C13.  parse_timer_detailed sets rta to the first valid MM:SS token in   *)
(* text order and igt to the second, ignores all further tokens, and the   *)
(* effective timer is igt when present, else rta, else absent.             *)
(***************************************************************************)
C13_FirstIsRtaSecondIsIgt ==
    Decoded
       => LET r == timerResult[1]
              first == IF ShownValid # <<>>
                       THEN Some(TokenValue(ShownValid[1])) ELSE None
              second == IF Len(ShownValid) >= 2
                        THEN Some(TokenValue(ShownValid[2])) ELSE None
          IN  /\ r.rta = first
              /\ r.igt = second
              /\ EffectiveTimer(r) = (IF second # None THEN second ELSE first)
              /\ parse_timer(ocrText) = EffectiveTimer(r)

\* three valid timers on the frame: the second is the effective one, the
\* third is ignored
C13_Witness ==
    /\ Decoded
    /\ Len(ShownValid) = 3
    /\ TokenValue(ShownValid[1]) # TokenValue(ShownValid[2])
    /\ TokenValue(ShownValid[3]) # TokenValue(ShownValid[2])
    /\ EffectiveTimer(timerResult[1]) = Some(TokenValue(ShownValid[2]))

(***************************************************************************)
(* C14.  A token whose seconds are 60 or more is discarded entirely: the   *)
(* result is the one of the same frame without that token, so the next     *)
(* valid token takes its place; every value kept is minutes*60 + seconds   *)
(* of a valid token, and the kept values are in the order of the frame.    *)
(***************************************************************************)
C14_InvalidSecondsDiscarded ==
    Decoded
       => LET r == timerResult[1]
          IN  /\ \A i \in 1..Len(frameShows) :
                    ~TokenValid(frameShows[i])
                       => r = parse_timer_detailed(
                                 EngineText(Without(frameShows, i), 1,
                                            rendering))
              /\ r.rta # None
                    => \E i \in 1..Len(frameShows) :
                          /\ TokenValid(frameShows[i])
                          /\ r.rta[1] = TokenValue(frameShows[i])
                          /\ \A h \in 1..(i - 1) : ~TokenValid(frameShows[h])
                          /\ r.igt # None
                                => \E j \in (i + 1)..Len(frameShows) :
                                      /\ TokenValid(frameShows[j])
                                      /\ r.igt[1] = TokenValue(frameShows[j])
              /\ (r.rta = None) <=> (\A i \in 1..Len(frameShows) :
                                        ~TokenValid(frameShows[i]))

\* a discarded first token: the second takes the place of rta
C14_Witness ==
    /\ Decoded
    /\ Len(frameShows) = 2
    /\ frameShows[1].s = 60
    /\ frameShows[2].s = 59
    /\ timerResult[1] = [rta |-> Some(TokenValue(frameShows[2])), igt |-> None]

(***************************************************************************)
(* C15.  For a token with minutes m in [60, 99] the minutes are taken as   *)
(* m mod 10 and the seconds are left unchanged; for m < 60 the minutes are *)
(* used as read.                                                           *)
(***************************************************************************)
C15_MinuteOverflowCorrected ==
    (Decoded /\ Len(frameShows) = 1 /\ TokenValid(frameShows[1]))
       => LET tok == frameShows[1]
              r == timerResult[1]
          IN  /\ r.rta # None
              /\ r.rta[1] % 60 = tok.s
              /\ tok.m >= 60 => r.rta[1] \div 60 = tok.m % 10
              /\ tok.m < 60 => r.rta[1] \div 60 = tok.m

\* 99:59 is decoded as 9:59
C15_Witness ==
    /\ Decoded
    /\ frameShows = <<[m |-> 99, s |-> 59]>>
    /\ timerResult[1].rta = Some(9 * 60 + 59)

(***************************************************************************)
(* C16.  For every s in [0, 5999], format_timer(s) is the unpadded decimal *)
(* of s div 60, a colon, and s mod 60 as exactly two digits; reading the   *)
(* digits back gives minutes*60 + seconds = s.                             *)
(***************************************************************************)
C16_FormatRoundTrips ==
    timerStr # None
       => LET str == timerStr[1]
              n == secondsArg[1]
              len == Len(str)
              minutes == SubSeq(str, 1, len - 3)
              secs == SubSeq(str, len - 1, len)
          IN  /\ len >= 4
              /\ str[len - 2] = ":"
              /\ \A i \in (1..len) \ {len - 2} : IsDigit(str[i])
              /\ Len(minutes) > 1 => minutes[1] # "0"
              /\ NumberOf(minutes) = n \div 60
              /\ NumberOf(secs) = n % 60
              /\ NumberOf(minutes) * 60 + NumberOf(secs) = n
              /\ n = 0 => str = <<"0", ":", "0", "0">>

\* 867 is shown as 14:27
C16_Witness ==
    /\ secondsArg = Some(867)
    /\ timerStr = Some(<<"1", "4", ":", "2", "7">>)

(***************************************************************************)
(* C17.  _fix_ocr_text leaves a text of digits, ':' and '.' unchanged, and *)
(* applying it twice gives the same text as applying it once.              *)
(***************************************************************************)
IsClean(str) == \A i \in 1..Len(str) : IsDigit(str[i]) \/ str[i] \in {":", "."}

C17_State == fixes >= 1 => fix_ocr_text(ocrText) = ocrText

C17_Step ==
    (fixes' = fixes + 1 /\ (IsClean(ocrText) \/ fixes >= 1))
       => ocrText' = ocrText

C17_FixIsIdempotent == []C17_State /\ [][C17_Step]_vars

\* the second application to a text the first one had to correct
C17_Witness ==
    /\ fixes = 2
    /\ rendering.misread
    /\ frameShows # <<>>
    /\ ocrText # EngineText(frameShows, 1, rendering)

(***************************************************************************)
(* C18.  In every Tier-2 iteration the stream status is verified before    *)
(* the frame capture; if it reports offline or other content the loop ends *)
(* at once with result None: no capture in that iteration, no              *)
(* notification, no state write, no backoff sleep.                         *)
(***************************************************************************)
ShowsMinecraft(st) == st # None /\ st[1] = "Minecraft"

InIteration(p) ==
    pc[p] \in {"capture", "read", "notify", "stamp_state", "save_state", "sleep"}

C18_State ==
    \A p \in Procs :
        /\ InIteration(p)
              => /\ Tier2StatusChecks(p) = iteration[p]
                 /\ ShowsMinecraft(stream[p])
        /\ pc[p] = "verify" => Tier2StatusChecks(p) = iteration[p] - 1
        /\ pc[p] \in {"verify", "capture"} => ops[p].capture = iteration[p] - 1
        /\ (pc[p] = "loop_returned" /\ ~ShowsMinecraft(stream[p]))
              => /\ result[p] = None
                 /\ Tier2StatusChecks(p) = iteration[p]
                 /\ ops[p].capture = iteration[p] - 1
                 /\ ops[p].sleep = iteration[p] - 1
                 /\ ops[p].sink = 0
                 /\ ops[p].write = 0
                 /\ state[p] = stateFile

C18_Step ==
    \A p \in Procs :
        /\ (Leaves(p, "verify") /\ pc'[p] # "raised")
              => /\ ops'[p].status = ops[p].status + 1
                 /\ ops'[p].capture = ops[p].capture
                 /\ IF ShowsMinecraft(stream'[p])
                    THEN pc'[p] = "capture"
                    ELSE /\ pc'[p] = "loop_returned"
                         /\ result'[p] = None
                         /\ ops'[p].sleep = ops[p].sleep
                         /\ now' = now
                         /\ stateFile' = stateFile
                         /\ sent' = sent
        /\ (pc'[p] = "capture" /\ pc[p] # "capture") => pc[p] = "verify"

C18_StatusVerifiedBeforeCapture == []C18_State /\ [][C18_Step]_vars

\* the content changes in the second iteration
C18_Witness ==
    \E p \in Procs :
        /\ pc[p] = "loop_returned"
        /\ iteration[p] = 2
        /\ stream[p] = Some("Just Chatting")
        /\ ops[p].capture = 1
        /\ ops[p].sleep = 1
        /\ result[p] = None

(***************************************************************************)
(* C19.  The wall-clock ceiling is checked once at the start of every      *)
(* Tier-2 iteration, before any collaborator call: if the time elapsed     *)
(* since the loop started exceeds the ceiling the loop returns None        *)
(* without status check, capture, notification or state write; otherwise   *)
(* the iteration proceeds.                                                 *)
(***************************************************************************)
Elapsed(p) == now - startTime[p]

C19_State ==
    \A p \in Procs :
        /\ (pc[p] = "verify" \/ InIteration(p)) => Elapsed(p) <= MAX_RUNTIME
        /\ (pc[p] = "loop_returned" /\ Elapsed(p) > MAX_RUNTIME)
              => /\ result[p] = None
                 /\ Tier2StatusChecks(p) = iteration[p]
                 /\ ops[p].sleep = iteration[p]
                 /\ ops[p].sink = 0
                 /\ ops[p].write = 0

C19_Step ==
    \A p \in Procs :
        /\ Leaves(p, "loop_head")
              => IF Elapsed(p) > MAX_RUNTIME
                 THEN /\ pc'[p] = "loop_returned"
                      /\ result'[p] = None
                      /\ iteration'[p] = iteration[p]
                      /\ ops'[p] = ops[p]
                      /\ stateFile' = stateFile
                      /\ sent' = sent
                 ELSE /\ pc'[p] = "verify"
                      /\ iteration'[p] = iteration[p] + 1
                      /\ ops'[p] = ops[p]
        /\ (pc'[p] = "verify" /\ pc[p] # "verify") => pc[p] = "loop_head"

C19_CeilingCheckedFirst == []C19_State /\ [][C19_Step]_vars

\* the ceiling is found exceeded at the head of the third iteration
C19_Witness ==
    \E p \in Procs :
        /\ pc[p] = "loop_returned"
        /\ Elapsed(p) = MAX_RUNTIME + BACKOFF_SECONDS
        /\ iteration[p] = 2
        /\ result[p] = None

(***************************************************************************)
(* One check-timer invocation followed to its end, however many iterations *)
(* it takes: the loop of check_timer_loop with its real ceiling and its    *)
(* real backoff, the collaborators free to answer anything at every call.  *)
(* Every collaborator call is bounded by a timeout (twitch.py:41, 61;      *)
(* capture.py:16, 36, 68) and time.sleep returns, so a step that is        *)
(* possible is eventually taken: weak fairness of the step relation.       *)
(***************************************************************************)
LoopInit == Init

LoopNext ==
    \E p \in {1} :
        \/ \E d \in BOOLEAN, s \in BOOLEAN : Start(p, "check-timer", d, s, 0)
        \/ LoopEnter(p)
        \/ LoopTop(p)
        \/ \E s \in Streams, cred \in Credentials : Verify(p, s, cred)
        \/ \E frame \in {None, Some("frame.jpg")} : Capture(p, frame)
        \/ \E timer \in TimerReads :
              ReadAndDecide(p, timer) /\ UNCHANGED reads
        \/ \E cred \in Credentials, ok \in BOOLEAN : Notify(p, cred, ok)
        \/ StampState(p)
        \/ \E ok \in BOOLEAN : SaveState(p, ok)
        \/ \E d \in SleepDurations : Sleep(p, d)
        \/ AfterLoop(p)
        \/ Uncaught(p)

LoopSpec == LoopInit /\ [][LoopNext]_vars /\ WF_vars(LoopNext)

(***************************************************************************)
(* C20.  The Tier-2 loop always terminates, whatever the collaborators     *)
(* answer: an iteration that does not leave the loop takes one backoff     *)
(* sleep of 60, so the elapsed time strictly grows from one iteration to   *)
(* the next, no iteration starts once the ceiling is exceeded, and the     *)
(* loop is left at the latest at the head of the first iteration that      *)
(* follows.                                                                *)
(***************************************************************************)
MaxIterations == MAX_RUNTIME \div BACKOFF_SECONDS + 1

LoopLeft(p) == pc[p] \in {"loop_returned", "raised", "exited"}

C20_State ==
    \A p \in Procs :
        (pc[p] = "loop_head" \/ pc[p] = "verify" \/ InIteration(p))
           => /\ ops[p].sleep >= iteration[p] - 1
              /\ ops[p].slept = BACKOFF_SECONDS * ops[p].sleep
              /\ Elapsed(p) >= ops[p].slept
              /\ iteration[p] <= MaxIterations

C20_Step ==
    \A p \in Procs :
        /\ (pc'[p] = "loop_head" /\ pc[p] # "loop_head" /\ pc[p] # "loop_enter")
              => /\ pc[p] = "sleep"
                 /\ ops'[p].sleep = ops[p].sleep + 1
                 /\ ops'[p].slept = ops[p].slept + BACKOFF_SECONDS
                 /\ now' >= now + BACKOFF_SECONDS
                 /\ startTime'[p] = startTime[p]
        /\ (Leaves(p, "loop_head") /\ Elapsed(p) > MAX_RUNTIME)
              => pc'[p] = "loop_returned"
        /\ (pc[p] = "verify" \/ InIteration(p))
              => (pc'[p] = "verify" \/ InIteration(p)' \/ LoopLeft(p)'
                  \/ pc'[p] = "loop_head")

C20_Terminates ==
    \A p \in Procs : (pc[p] = "loop_enter") ~> LoopLeft(p)

C20_LoopAlwaysTerminates ==
    /\ []C20_State
    /\ [][C20_Step]_vars
    /\ C20_Terminates

\* the stream stayed live and nothing qualified: the last iteration the
\* ceiling allows has slept and the loop returns at the next head
C20_Witness ==
    /\ pc[1] = "loop_returned"
    /\ iteration[1] = MaxIterations
    /\ ops[1].sleep = MaxIterations
    /\ Elapsed(1) = MAX_RUNTIME + BACKOFF_SECONDS
    /\ result[1] = None

(***************************************************************************)
(* C23.  Whatever the text, the TimerResult of parse_timer_detailed has an *)
(* igt only when it has an rta, each value present lies in [0, 3599], and  *)
(* so does the effective timer handed to the threshold comparison.         *)
(***************************************************************************)
DecoderMax == 59 * 60 + 59

InDecoderRange(v) == v # None => (0 <= v[1] /\ v[1] <= DecoderMax)

WellFormed(r) ==
    /\ r.igt # None => r.rta # None
    /\ InDecoderRange(r.rta)
    /\ InDecoderRange(r.igt)
    /\ InDecoderRange(EffectiveTimer(r))

C23_ResultInRange ==
    /\ timerResult # None => WellFormed(timerResult[1])
    /\ reparsed # None => WellFormed(reparsed[1])

\* 99:59 read first, corrected to 9:59, and 59:59, the largest value, second
C23_Witness ==
    /\ timerResult # None
    /\ Len(frameShows) = 2
    /\ frameShows[1] = [m |-> 99, s |-> 59]
    /\ timerResult[1].rta = Some(9 * 60 + 59)
    /\ timerResult[1].igt = Some(DecoderMax)

(***************************************************************************)
(* C24.  For every s in [0, 3599], parsing the text format_timer(s) gives  *)
(* s back: parse_timer returns s, the rta is s and there is no igt.        *)
(***************************************************************************)
C24_ParseInvertsFormat ==
    (reparsed # None /\ secondsArg[1] <= DecoderMax)
       => /\ reparsed[1] = [rta |-> secondsArg, igt |-> None]
          /\ EffectiveTimer(reparsed[1]) = secondsArg
          /\ parse_timer(format_timer(secondsArg[1])) = secondsArg

\* 3599 is formatted as 59:59 and read back as 3599
C24_Witness ==
    /\ secondsArg = Some(DecoderMax)
    /\ timerStr = Some(<<"5", "9", ":", "5", "9">>)
    /\ reparsed = Some([rta |-> Some(DecoderMax), igt |-> None])

(***************************************************************************)
(* A dry run and a non-dry run of the Tier-2 loop against the same         *)
(* collaborators.  Invocation 1 runs with --dry-run; what the status       *)
(* source, the capture, the decoder and the clock answer it is recorded in *)
(* `script`, one record per iteration.  Invocation 2 then runs with the    *)
(* same flags but without --dry-run and is given the recorded answers.     *)
(* The sink and the state file answer only invocation 2: the dry run does  *)
(* not use them.                                                           *)
(***************************************************************************)
CallSites == {"verify", "capture", "read", "sleep"}

Blank == [verify |-> None, capture |-> None, read |-> None, sleep |-> None]

Answers(site) ==
    CASE site = "verify" -> Streams \X Credentials
      [] site = "capture" -> {None, Some("frame.jpg")}
      [] site = "read" -> TimerReads
      [] site = "sleep" -> SleepDurations

\* the call invocation p is about to make has an answer on record
Asked(p) ==
    /\ pc[p] \in CallSites
    /\ iteration[p] \in 1..Len(script)
    /\ script[iteration[p]][pc[p]] # None

Answer(p) == script[iteration[p]][pc[p]][1]

AtEnd(p) == pc[p] \in {"loop_returned", "raised"}

\* a collaborator answers the call the dry run is about to make
Draw ==
    /\ pc[1] \in CallSites
    /\ ~Asked(1)
    /\ \E a \in Answers(pc[1]) :
          /\ pc[1] = "verify" => SameEnvironment(1, a[2])
          /\ script' =
                IF iteration[1] > Len(script)
                THEN Append(script, [Blank EXCEPT ![pc[1]] = Some(a)])
                ELSE [script EXCEPT ![iteration[1]][pc[1]] = Some(a)]
    /\ UNCHANGED <<progvars, ocrvars>>

DryNext ==
    \/ \E s \in BOOLEAN : Begin(1, "check-timer", TRUE, s, 0)
    \/ AtEnd(1) /\ Begin(2, "check-timer", FALSE, singleCheck[1], now)
    \/ Draw
    \/ \E p \in Procs :
          \/ LoopEnter(p)
          \/ LoopHead(p)
          \/ Asked(p) /\ Verify(p, Answer(p)[1], Answer(p)[2])
          \/ Asked(p) /\ Capture(p, Answer(p))
          \/ Asked(p) /\ ReadTimer(p, Answer(p))
          \/ Asked(p) /\ Sleep(p, Answer(p))
          \/ \E cred \in Credentials, ok \in BOOLEAN : Notify(p, cred, ok)
          \/ StampState(p)
          \/ \E ok \in BOOLEAN : SaveState(p, ok)
          \/ (AtEnd(1) \/ Ended(1)) /\ AtEnd(2) /\ AfterLoop(p)
          \/ (AtEnd(1) \/ Ended(1)) /\ AtEnd(2) /\ Uncaught(p)

DrySpec == Init /\ [][DryNext]_vars

(***************************************************************************)
(* C21.  The dry flag changes only the side effects: given the same        *)
(* configuration and the same answers of the collaborators, the non-dry    *)
(* run makes the same status checks, captures and sleeps as the dry run,   *)
(* ends in the same iteration and returns the same value.                  *)
(***************************************************************************)
C21_DryRunSameDecisions ==
    /\ pc[2] \in CallSites => Asked(2)
    /\ (AtEnd(1) /\ AtEnd(2))
          => /\ pc[2] = pc[1]
             /\ error[2] = error[1]
             /\ result[2] = result[1]
             /\ iteration[2] = iteration[1]
             /\ ops[2].status = ops[1].status
             /\ ops[2].capture = ops[1].capture
             /\ ops[2].sleep = ops[1].sleep
             /\ reads[2] = reads[1]

(***************************************************************************)
(* Invocations that overlap: nothing in main.py keeps the scheduler from   *)
(* starting an invocation while the one before it is still running (there  *)
(* is no lock on state.json).  Each invocation holds the state it loaded   *)
(* at its own start; the steps of the running invocations interleave.  The *)
(* invocations are poll-only ones with --single-check: one iteration each, *)
(* and the clock advances between the starts.                              *)
(***************************************************************************)
Overlapping(p, at) ==
    /\ \A q \in Procs : q < p => pc[q] # "idle"
    /\ \A q \in Procs : q + 1 < p => Ended(q)
    /\ p = 1 => at = 0

OverlapNext ==
    \E p \in Procs :
        \/ \E d \in BOOLEAN, at \in StartTimes :
              /\ pc[p] = "idle"
              /\ Overlapping(p, at)
              /\ Begin(p, "check-timer", d, TRUE, at)
        \/ LoopEnter(p)
        \/ LoopHead(p)
        \/ \E s \in Streams, cred \in Credentials : Verify(p, s, cred)
        \/ \E frame \in {None, Some("frame.jpg")} : Capture(p, frame)
        \/ \E timer \in TimerReads : ReadTimer(p, timer)
        \/ \E cred \in Credentials, ok \in BOOLEAN : Notify(p, cred, ok)
        \/ StampState(p)
        \/ \E ok \in BOOLEAN : SaveState(p, ok)
        \/ AfterLoop(p)
        \/ Uncaught(p)

OverlapSpec == Init /\ [][OverlapNext]_vars

(***************************************************************************)
(* C22.  Across any sequence of invocations, overlapping ones included,    *)
(* last_tweet_time is never deleted and never moves backwards: once the    *)
(* persisted record holds a timestamp, every later value is a timestamp    *)
(* greater than or equal to it.                                            *)
(***************************************************************************)
Stamp(record) == record.last_tweet_time

NotBefore(later, earlier) ==
    earlier # None => (later # None /\ later[1] >= earlier[1])

C22_State ==
    /\ NotBefore(Some(now), Stamp(stateFile))
    /\ \A p \in Procs : NotBefore(Some(now), Stamp(state[p]))

C22_Step ==
    /\ Stamp(stateFile) # None => Stamp(stateFile') # None
    /\ stateFile' # stateFile
          => \E p \in Procs :
                /\ Leaves(p, "save_state")
                /\ ~dryRun[p]
                /\ Stamp(state[p]) # None
                /\ stateFile' = state[p]
    /\ \A p \in Procs :
          /\ Leaves(p, "idle") => state'[p] = stateFile
          /\ Leaves(p, "stamp_state")
                => /\ Stamp(state'[p]) = Some(now)
                   /\ NotBefore(Stamp(state'[p]), Stamp(state[p]))
          /\ (state'[p] # state[p] /\ pc'[p] # "exited")
                => pc[p] \in {"idle", "stamp_state"}

=============================================================================
